---- MODULE Spec2Model ----
(***************************************************************************)
(* GetSeq (getseq_cmd.py): the Ensembl REST client.                        *)
(*                                                                         *)
(*   Spec      a run of retrieve_seq: get_regions, then submit_regions     *)
(*             (one POST per batch), then the writing of the records.      *)
(*   SpecRate  sequences of perform_rest_action calls on one client, with  *)
(*             a clock: the rate limiter.                                  *)
(*   SpecCanon the chromosome-name canonicalization of get_regions as a    *)
(*             pure function on strings.                                   *)
(*                                                                         *)
(* A string is a sequence of one-character strings.                        *)
(***************************************************************************)
EXTENDS Integers, Sequences, FiniteSets, TLC

VARIABLES
    pc,           \* position of the run
    bed,          \* the rows of the input table, each [chrom, start, end]
    reads,        \* get_regions' local data frame `reads` when it stopped
    regions,      \* the dict get_regions returns, in insertion order
    posts,        \* the bodies POSTed so far, in order
    sequences,    \* submit_regions' local list `sequences`
    output,       \* the records written to the output file or stdout
    reqs_per_sec, \* self.reqs_per_sec
    req_count,    \* self.req_count
    last_req,     \* self.last_req, in ticks
    now,          \* time.time(), in ticks
    sent,         \* the requests sent: [at |-> tick, ok |-> status < 400]
    name,         \* SpecCanon: a chromosome name
    once,         \* SpecCanon: the name canonicalized
    twice         \* SpecCanon: the canonicalized name canonicalized again

vars == <<pc, bed, reads, regions, posts, sequences, output,
          reqs_per_sec, req_count, last_req, now, sent, name, once, twice>>

retrieveVars == <<bed, reads, regions, posts, sequences, output>>
clientVars == <<reqs_per_sec, req_count, last_req, now, sent>>
canonVars == <<name, once, twice>>

(***************************************************************************)
(* Bounds of the model and constants of the program.                       *)
(***************************************************************************)
MaxRows == 101

MaxCeiling == 2

MaxReqs == 5

MaxDur == 1

MaxSlack == 1

TicksPerSec == 2

StartSecs == 2

MaxNameLen == 6

ChunkSize == 50

DefaultReqsPerSec == 15

(***************************************************************************)
(* Strings.                                                                *)
(***************************************************************************)
Digits == <<"0", "1", "2", "3", "4", "5", "6", "7", "8", "9">>

DigitSet == {Digits[i] : i \in 1..10}

\* str.isdigit(): not empty and every character a digit
IsDigit(s) == Len(s) > 0 /\ \A i \in 1..Len(s) : s[i] \in DigitSet

\* str(n) of a non-negative integer
RECURSIVE StrOfNat(_)
StrOfNat(n) ==
    IF n < 10 THEN <<Digits[n + 1]>>
    ELSE StrOfNat(n \div 10) \o <<Digits[(n % 10) + 1]>>

DigitValue(c) == CHOOSE d \in 0..9 : Digits[d + 1] = c

\* the integer pandas reads from a cell of digits
RECURSIVE ParseNat(_)
ParseNat(s) ==
    IF Len(s) = 0 THEN 0
    ELSE 10 * ParseNat(SubSeq(s, 1, Len(s) - 1)) + DigitValue(s[Len(s)])

\* `sub in s`
Contains(s, sub) ==
    \E i \in 1..(Len(s) - Len(sub) + 1) : SubSeq(s, i, i + Len(sub) - 1) = sub

\* s.replace(old, new): occurrences found left to right, not overlapping,
\* in one pass over s
RECURSIVE Replace(_, _, _)
Replace(s, old, new) ==
    IF Len(s) < Len(old) THEN s
    ELSE IF SubSeq(s, 1, Len(old)) = old
         THEN new \o Replace(SubSeq(s, Len(old) + 1, Len(s)), old, new)
         ELSE <<Head(s)>> \o Replace(Tail(s), old, new)

Chr == <<"c", "h", "r">>

ChrM == <<"c", "h", "r", "M">>

MT == <<"M", "T">>

(***************************************************************************)
(* The input table.  Row i (from 0) of the data is made from a period (the *)
(* rows repeat after `period` rows, so the input holds duplicate rows when *)
(* period is less than the number of rows) and a chromosome naming style.  *)
(***************************************************************************)
Row(c, s, e) == [chrom |-> c, start |-> s, end |-> e]

Styles == {"bare", "chr", "mixed"}

ChromOf(i, style) ==
    CASE style = "bare" -> <<"1">>
      [] style = "chr" -> IF i % 3 = 1 THEN ChrM ELSE Chr \o <<"1">>
      [] style = "mixed" -> IF i % 2 = 0 THEN Chr \o <<"1">> ELSE <<"1">>

DataRow(i, period, style) ==
    Row(ChromOf(i, style), StrOfNat(i % period), StrOfNat((i % period) + 1))

DataRows(n, period, style) == [i \in 1..n |-> DataRow(i - 1, period, style)]

Periods == {ChunkSize, ChunkSize + 1, MaxRows + 1}

\* the start cell of a first row that is not data
StartLower == <<"s", "t", "a", "r", "t">>

StartTitle == <<"S", "t", "a", "r", "t">>

StartUpper == <<"S", "T", "A", "R", "T">>

StartOther == <<"p", "o", "s">>

FirstRowCells == {StartLower, StartTitle, StartUpper, StartOther}

HeaderRow(cell) == Row(Chr \o <<"o", "m">>, cell, <<"e", "n", "d">>)

Beds ==
    {DataRows(n, p, st) : n \in 0..MaxRows, p \in Periods, st \in Styles}
    \cup {<<HeaderRow(h)>> \o DataRows(n, p, st) :
            h \in FirstRowCells, n \in 0..MaxRows, p \in Periods, st \in Styles}

(***************************************************************************)
(* get_regions.                                                            *)
(***************************************************************************)
\* read_csv reads a column whose cells are all integers as int64, and any
\* other column as the text of its cells
IntColumn(rows, col) == \A i \in 1..Len(rows) : IsDigit(rows[i][col])

\* str(cell) / astype(str) of a cell of a column
CellStr(cell, intcol) == IF intcol THEN StrOfNat(ParseNat(cell)) ELSE cell

\* line 133: start_cell in {'start', 'Start'}
IsHeaderToken(cell) == cell \in {StartLower, StartTitle}

\* the header row kept: reads.iloc[0:]
DropHeaderKeepsAll(rows) == rows

\* line 134: reads.iloc[1:]
DropHeader(rows) == Tail(rows)

\* lines 158-159: 'chrM' to 'MT', then every remaining 'chr' removed
Canonicalize(c) == Replace(Replace(c, ChrM, MT), Chr, <<>>)

\* lines 156-161: the rewrite is applied to every row once any row holds 'chr'
CanonicalizeRows(rows) ==
    IF \E i \in 1..Len(rows) : Contains(rows[i].chrom, Chr)
    THEN [i \in 1..Len(rows) |-> [rows[i] EXCEPT !.chrom = Canonicalize(@)]]
    ELSE rows

\* lines 165-166: chrom + ':' + start + '..' + end
RegionString(c, s, e) == c \o <<":">> \o s \o <<".", ".">> \o e

\* groups of 51: // 51
GroupLabelWide(i) == i \div (ChunkSize + 1)

\* line 164: the group label of row i (from 0), np.arange(len(reads)) // 50
GroupLabel(i) == i \div ChunkSize

\* dict.update({k: v}): a key already present keeps its place and gets the
\* new value, a new key is appended
DictUpdate(d, k, v) ==
    IF \E i \in 1..Len(d) : d[i].key = k
    THEN [i \in 1..Len(d) |-> IF d[i].key = k THEN [key |-> k, value |-> v] ELSE d[i]]
    ELSE Append(d, [key |-> k, value |-> v])

\* the members of group k, in row order
GroupMembers(strs, k) ==
    LET idx == {i \in 1..Len(strs) : GroupLabel(i - 1) = k}
    IN  SelectSeq([i \in 1..Len(strs) |-> IF i \in idx THEN <<strs[i]>> ELSE <<>>],
                  LAMBDA x : x # <<>>)

\* lines 164-169: groupby visits the labels in ascending order
RECURSIVE GroupInto(_, _, _)
GroupInto(strs, k, d) ==
    IF \A i \in 1..Len(strs) : GroupLabel(i - 1) < k THEN d
    ELSE LET m == GroupMembers(strs, k)
             chunk == [j \in 1..Len(m) |-> m[j][1]]
         IN  GroupInto(strs, k + 1,
                       IF Len(m) = 0 THEN d ELSE DictUpdate(d, chunk[1], chunk))

\* the region strings of the rows of a frame, in row order
RegionStrings(rows, chromInt, startInt, endInt) ==
    [i \in 1..Len(rows) |->
        RegionString(CellStr(rows[i].chrom, chromInt),
                     CellStr(rows[i].start, startInt),
                     CellStr(rows[i].end, endInt))]

\* get_regions(bed): how it ends, the rows it kept and the dict it built
get_regions(b) ==
    IF Len(b) = 0
    THEN \* read_csv raises EmptyDataError, a ValueError whose text line 142
         \* does not match: line 151 then reads the unbound `reads`
         [status |-> "raised", reads |-> <<>>, regions |-> <<>>]
    ELSE
      LET chromInt == IntColumn(b, "chrom")
          startInt == IntColumn(b, "start")
          endInt == IntColumn(b, "end")
          start_cell == b[1].start
      IN  IF ~IsDigit(CellStr(start_cell, startInt)) /\ ~IsHeaderToken(start_cell)
          THEN [status |-> "exit1", reads |-> b, regions |-> <<>>]
          ELSE
            LET kept == IF IsDigit(CellStr(start_cell, startInt)) THEN b
                        ELSE DropHeader(b)
                canon == CanonicalizeRows(kept)
                strs == RegionStrings(canon, chromInt, startInt, endInt)
                d == GroupInto(strs, 0, <<>>)
            IN  IF Len(d) = 0
                THEN \* line 173: regions_list[0] of an empty list, IndexError
                     [status |-> "raised", reads |-> canon, regions |-> <<>>]
                ELSE [status |-> "ok", reads |-> canon, regions |-> d]

(***************************************************************************)
(* perform_rest_action: the rate limiter (lines 31-36) and the request     *)
(* (lines 41-52).                                                          *)
(***************************************************************************)
\* the limit tested with > instead of >=
ThrottleNeededLate == req_count > reqs_per_sec

\* line 31: self.req_count >= self.reqs_per_sec
ThrottleNeeded == req_count >= reqs_per_sec

\* lines 32-35: the clock after `time.sleep(1 - delta)` when delta < 1, read
\* again by line 35; sleep returns no earlier than asked, `slack` later
TimeAfterSleep(slack) ==
    LET delta == now - last_req
    IN  (IF delta < TicksPerSec THEN now + (TicksPerSec - delta) ELSE now) + slack

\* line 52: self.req_count += 1
CountAfterSuccess(c) == c + 1

\* the server's answer to a POST of region strings: one record per region
\* string, in request order (line 51, request.json())
Record(r) == [id |-> r, seq |-> <<"N">>]

Response(body) == [i \in 1..Len(body) |-> Record(body[i])]

\* lines 196, 200: ">{id}\n{seq}"
Format(rec) == <<">">> \o rec.id \o <<"\n">> \o rec.seq

(***************************************************************************)
(* Spec: a run of retrieve_seq.                                            *)
(***************************************************************************)
Init ==
    /\ pc = "start"
    /\ bed \in Beds
    /\ reads = <<>>
    /\ regions = <<>>
    /\ posts = <<>>
    /\ sequences = <<>>
    /\ output = <<>>
    /\ reqs_per_sec = DefaultReqsPerSec
    /\ req_count = 0
    /\ last_req = 0
    /\ now = StartSecs * TicksPerSec
    /\ sent = <<>>
    /\ name = <<>>
    /\ once = <<>>
    /\ twice = <<>>

\* line 182: client.get_regions(args.bed)
GetRegions ==
    /\ pc = "start"
    /\ LET r == get_regions(bed)
       IN  /\ reads' = r.reads
           /\ regions' = r.regions
           /\ pc' = CASE r.status = "ok" -> "submit"
                      [] r.status = "exit1" -> "exit1"
                      [] OTHER -> "raised"
    /\ UNCHANGED <<bed, posts, sequences, output>>
    /\ UNCHANGED clientVars
    /\ UNCHANGED canonVars

\* the rate limiter's part of a call made at time `now` (lines 31-36); the
\* clock of Spec stands still
LimiterInCall ==
    IF ThrottleNeeded
    THEN /\ last_req' = TimeAfterSleep(0)
         /\ now' = TimeAfterSleep(0)
    ELSE UNCHANGED <<last_req, now>>

\* lines 110-112, one turn of the loop of submit_regions whose request
\* succeeds: get_sequences, perform_rest_action, sequences.extend
PostOk ==
    /\ pc = "submit"
    /\ Len(posts) < Len(regions)
    /\ LET body == regions[Len(posts) + 1].value
       IN  /\ posts' = Append(posts, body)
           /\ sequences' = sequences \o Response(body)
    /\ LimiterInCall
    /\ req_count' = CountAfterSuccess(IF ThrottleNeeded THEN 0 ELSE req_count)
    /\ sent' = Append(sent, [at |-> now', ok |-> TRUE])
    /\ UNCHANGED <<pc, bed, reads, regions, output, reqs_per_sec>>
    /\ UNCHANGED canonVars

\* the failure swallowed: the loop of submit_regions goes on
PostFailSwallowed ==
    /\ pc = "submit"
    /\ Len(posts) < Len(regions)
    /\ posts' = Append(posts, regions[Len(posts) + 1].value)
    /\ sent' = Append(sent, [at |-> now, ok |-> FALSE])
    /\ UNCHANGED <<pc, bed, reads, regions, sequences, output>>
    /\ UNCHANGED <<reqs_per_sec, req_count, last_req, now>>
    /\ UNCHANGED canonVars

\* lines 47-48: the request is not ok, raise_for_status() raises HTTPError,
\* which nothing catches: the run ends
PostFail ==
    /\ pc = "submit"
    /\ Len(posts) < Len(regions)
    /\ posts' = Append(posts, regions[Len(posts) + 1].value)
    /\ LimiterInCall
    /\ req_count' = (IF ThrottleNeeded THEN 0 ELSE req_count)
    /\ sent' = Append(sent, [at |-> now', ok |-> FALSE])
    /\ pc' = "failed"
    /\ UNCHANGED <<bed, reads, regions, sequences, output, reqs_per_sec>>
    /\ UNCHANGED canonVars

\* lines 191-200: the records are written once submit_regions has returned
WriteOutput ==
    /\ pc = "submit"
    /\ Len(posts) = Len(regions)
    /\ output' = [i \in 1..Len(sequences) |-> Format(sequences[i])]
    /\ pc' = "done"
    /\ UNCHANGED <<bed, reads, regions, posts, sequences>>
    /\ UNCHANGED clientVars
    /\ UNCHANGED canonVars

Next == GetRegions \/ PostOk \/ PostFail \/ WriteOutput

Spec == Init /\ [][Next]_vars

(***************************************************************************)
(* SpecRate: calls of perform_rest_action on one client.  A call is two    *)
(* steps, the rate limiter and then the request; the clock moves while the *)
(* call sleeps and while a request is under way.  time.time() counts the   *)
(* seconds since 1970: the first reading is far more than one second.      *)
(***************************************************************************)
InitRate ==
    /\ pc = "idle"
    /\ reqs_per_sec \in 1..MaxCeiling
    /\ req_count = 0
    /\ last_req = 0
    /\ now = StartSecs * TicksPerSec
    /\ sent = <<>>
    /\ bed = <<>>
    /\ reads = <<>>
    /\ regions = <<>>
    /\ posts = <<>>
    /\ sequences = <<>>
    /\ output = <<>>
    /\ name = <<>>
    /\ once = <<>>
    /\ twice = <<>>

\* lines 31-36, the branch taken: sleep what is left of the second, then
\* last_req = time.time() and req_count = 0
CallThrottled ==
    /\ pc = "idle"
    /\ Len(sent) < MaxReqs
    /\ ThrottleNeeded
    /\ \E slack \in 0..MaxSlack :
         /\ now' = TimeAfterSleep(slack)
         /\ last_req' = TimeAfterSleep(slack)
    /\ req_count' = 0
    /\ pc' = "send"
    /\ UNCHANGED <<reqs_per_sec, sent>>
    /\ UNCHANGED retrieveVars
    /\ UNCHANGED canonVars

\* line 31, the branch not taken
CallFree ==
    /\ pc = "idle"
    /\ Len(sent) < MaxReqs
    /\ ~ThrottleNeeded
    /\ pc' = "send"
    /\ UNCHANGED clientVars
    /\ UNCHANGED retrieveVars
    /\ UNCHANGED canonVars

\* lines 41-54: the request is sent at `now`, takes d ticks and is ok
SendOk ==
    /\ pc = "send"
    /\ sent' = Append(sent, [at |-> now, ok |-> TRUE])
    /\ \E d \in 0..MaxDur : now' = now + d
    /\ req_count' = CountAfterSuccess(req_count)
    /\ pc' = "idle"
    /\ UNCHANGED <<reqs_per_sec, last_req>>
    /\ UNCHANGED retrieveVars
    /\ UNCHANGED canonVars

\* lines 41-48: the request is sent at `now`, takes d ticks and is not ok;
\* raise_for_status() raises and line 52 is not reached
SendFail ==
    /\ pc = "send"
    /\ sent' = Append(sent, [at |-> now, ok |-> FALSE])
    /\ \E d \in 0..MaxDur : now' = now + d
    /\ pc' = "idle"
    /\ UNCHANGED <<reqs_per_sec, req_count, last_req>>
    /\ UNCHANGED retrieveVars
    /\ UNCHANGED canonVars

NextRate == CallThrottled \/ CallFree \/ SendOk \/ SendFail

SpecRate == InitRate /\ [][NextRate]_vars

(***************************************************************************)
(* SpecCanon: the canonicalization of the chrom column (lines 156-161) on  *)
(* a frame of one row, applied once and then again to its own result.      *)
(***************************************************************************)
ChromAlphabet == {"c", "h", "r", "M"}

Names == UNION {[1..n -> ChromAlphabet] : n \in 0..MaxNameLen}

CanonicalizeName(c) == CanonicalizeRows(<<Row(c, <<"0">>, <<"1">>)>>)[1].chrom

InitCanon ==
    /\ pc = "name"
    /\ name \in Names
    /\ once = <<>>
    /\ twice = <<>>
    /\ bed = <<>>
    /\ reads = <<>>
    /\ regions = <<>>
    /\ posts = <<>>
    /\ sequences = <<>>
    /\ output = <<>>
    /\ reqs_per_sec = DefaultReqsPerSec
    /\ req_count = 0
    /\ last_req = 0
    /\ now = StartSecs * TicksPerSec
    /\ sent = <<>>

CanonOnce ==
    /\ pc = "name"
    /\ once' = CanonicalizeName(name)
    /\ pc' = "once"
    /\ UNCHANGED <<name, twice>>
    /\ UNCHANGED retrieveVars
    /\ UNCHANGED clientVars

CanonTwice ==
    /\ pc = "once"
    /\ twice' = CanonicalizeName(once)
    /\ pc' = "twice"
    /\ UNCHANGED <<name, once>>
    /\ UNCHANGED retrieveVars
    /\ UNCHANGED clientVars

NextCanon == CanonOnce \/ CanonTwice

SpecCanon == InitCanon /\ [][NextCanon]_vars

(***************************************************************************)
(* The claims.                                                             *)
(***************************************************************************)
\* get_regions has returned its dict
Returned == pc \in {"submit", "done", "failed"}

\* the region strings of the rows get_regions kept, in input order
ExpectedRegions ==
    RegionStrings(reads, IntColumn(bed, "chrom"), IntColumn(bed, "start"),
                  IntColumn(bed, "end"))

RECURSIVE Flatten(_)
Flatten(ss) == IF Len(ss) = 0 THEN <<>> ELSE Head(ss) \o Flatten(Tail(ss))

DictValues(d) == [i \in 1..Len(d) |-> d[i].value]

CeilDiv(n, k) == (n + k - 1) \div k

\* C1: batching completeness: the batches get_regions returns, concatenated
\* in the order the dict is iterated, are the region strings of the input
\* rows in input order, and there are ceil(N/50) of them.
C1_BatchingComplete ==
    Returned =>
        /\ Flatten(DictValues(regions)) = ExpectedRegions
        /\ Len(regions) = CeilDiv(Len(reads), ChunkSize)

\* C2: rate limiting bound: when the first c+1 requests of a fresh client
\* with ceiling c all succeeded, request c+1 was sent at least one second
\* after request 1.
C2_SecondBurstWaits ==
    (/\ Len(sent) > reqs_per_sec
     /\ \A i \in 1..(reqs_per_sec + 1) : sent[i].ok)
        => sent[reqs_per_sec + 1].at >= sent[1].at + TicksPerSec

\* C3: all-or-nothing: once a request has failed it is the last request
\* sent, and no record is written.
C3_AllOrNothing ==
    (\E i \in 1..Len(sent) : ~sent[i].ok) =>
        /\ output = <<>>
        /\ \A i \in 1..Len(sent) : ~sent[i].ok => i = Len(sent)
        /\ Len(posts) = Len(sent)

C3_Witness ==
    /\ pc = "failed"
    /\ Len(regions) = 3
    /\ Len(sent) = 2
    /\ sent[1].ok
    /\ ~sent[2].ok
    /\ Len(sequences) = ChunkSize
    /\ output = <<>>

\* C4: input-order retrieval: when the run is done, one POST was sent per
\* 50-row chunk of the input, in chunk order, and the i-th record written is
\* the record of the i-th input region.
C4_InputOrder ==
    pc = "done" =>
        /\ Len(posts) = CeilDiv(Len(reads), ChunkSize)
        /\ Flatten(posts) = ExpectedRegions
        /\ output = [i \in 1..Len(reads) |-> Format(Record(ExpectedRegions[i]))]

\* C5: effective rate: the requests sent inside any interval of two seconds
\* number at most twice the ceiling (stated for the runs whose requests all
\* succeed, the runs the limiter counts in full).
C5_TwoSecondWindow ==
    (\A k \in 1..Len(sent) : sent[k].ok) =>
        \A i \in 1..Len(sent) : \A j \in i..Len(sent) :
            (sent[j].at - sent[i].at < 2 * TicksPerSec)
                => (j - i + 1 <= 2 * reqs_per_sec)

\* the input holds no region row: it is empty or holds a header row only
NoRegionRows ==
    \/ Len(bed) = 0
    \/ Len(bed) = 1 /\ IsHeaderToken(bed[1].start)

\* C6: empty input: with no region row get_regions does not raise and
\* returns an empty dict, no request is sent and no record written.
C6_EmptyInputIsValid ==
    (NoRegionRows /\ pc # "start") =>
        /\ pc \in {"submit", "done"}
        /\ regions = <<>>
        /\ posts = <<>>
        /\ output = <<>>

\* str.lower() of the letters of the header token
LowerChar(c) ==
    CASE c = "S" -> "s" [] c = "T" -> "t" [] c = "A" -> "a" [] c = "R" -> "r"
      [] OTHER -> c

Lower(s) == [i \in 1..Len(s) |-> LowerChar(s[i])]

\* the rows r are the rows b, their chrom canonicalized or not
SameRows(r, b) ==
    /\ Len(r) = Len(b)
    /\ \A i \in 1..Len(b) :
         /\ r[i].start = b[i].start
         /\ r[i].end = b[i].end
         /\ r[i].chrom \in {b[i].chrom, Canonicalize(b[i].chrom)}

\* C7 as claimed: a first row whose start field is "start" in any letter
\* case is dropped and the regions are built from the rows after it; a first
\* row with a numeric start field is kept.
C7_HeaderAnyCase ==
    (pc # "start" /\ Len(bed) > 0) =>
        /\ Lower(bed[1].start) = StartLower
             => (pc # "exit1" /\ SameRows(reads, Tail(bed)))
        /\ IsDigit(bed[1].start) => (pc # "exit1" /\ SameRows(reads, bed))

\* C7 as amended: a first row whose start field is exactly "start" or
\* "Start" is dropped and the rows get_regions builds regions from are the
\* rows after it; a first row with a numeric start field is kept and no row
\* is dropped.
C7_HeaderDetection ==
    (pc # "start" /\ Len(bed) > 0) =>
        /\ bed[1].start \in {StartLower, StartTitle}
             => (pc # "exit1" /\ SameRows(reads, Tail(bed)))
        /\ IsDigit(bed[1].start) => (pc # "exit1" /\ SameRows(reads, bed))
        /\ Returned =>
             LET exp == ExpectedRegions
                 strs == {exp[k] : k \in 1..Len(exp)}
             IN  \A i \in 1..Len(regions) : \A j \in 1..Len(regions[i].value) :
                     regions[i].value[j] \in strs

C7_Witness ==
    /\ pc = "submit"
    /\ Len(bed) > ChunkSize
    /\ bed[1].start = StartTitle
    /\ SameRows(reads, Tail(bed))
    /\ regions[1].value[1] = ExpectedRegions[1]

\* C8: canonicalization is idempotent: applied to its own result it changes
\* nothing.
C8_Idempotent == pc = "twice" => twice = once

\* C9: batch size limit: every batch of the dict and every POST body holds
\* at least 1 and at most 50 region strings.
C9_BatchSize ==
    /\ \A i \in 1..Len(regions) :
         Len(regions[i].value) >= 1 /\ Len(regions[i].value) <= ChunkSize
    /\ \A i \in 1..Len(posts) :
         Len(posts[i]) >= 1 /\ Len(posts[i]) <= ChunkSize

C9_Witness ==
    /\ pc = "done"
    /\ Len(posts) = 3
    /\ Len(posts[1]) = ChunkSize
    /\ Len(posts[3]) = 1

\* C10: the counter stays within 0..reqs_per_sec; a request that succeeds
\* adds exactly 1 to it and one that fails leaves it alone; a call that finds
\* it at the ceiling sets it to 0 and last_req at least one second later
\* than last_req was, before its request is sent.
C10_CounterInvariant ==
    /\ [](req_count >= 0 /\ req_count <= reqs_per_sec)
    /\ [][/\ (pc = "send" /\ Len(sent') = Len(sent) + 1 /\ sent'[Len(sent')].ok)
               => req_count' = req_count + 1
          /\ (pc = "send" /\ Len(sent') = Len(sent) + 1 /\ ~sent'[Len(sent')].ok)
               => req_count' = req_count
          /\ (pc = "idle" /\ pc' = "send" /\ req_count = reqs_per_sec)
               => /\ req_count' = 0
                  /\ last_req' >= last_req + TicksPerSec
                  /\ sent' = sent]_vars

C10_Witness ==
    /\ pc = "send"
    /\ reqs_per_sec = 1
    /\ req_count = 0
    /\ Len(sent) = 3
    /\ sent[1].ok
    /\ ~sent[2].ok
    /\ sent[3].ok
    /\ last_req = now
    /\ now = sent[1].at + TicksPerSec

====
